---- MODULE Spec2Model ----
(***************************************************************************)
(* Model of d2core/d2map/d2maprenderer/viewport.go: the Viewport that      *)
(* converts between world, orthogonal and screen space, keeps a stack of   *)
(* translations and switches between the center/left/right alignments.     *)
(*                                                                         *)
(* float64 values are modelled as exact rationals [n, d] in lowest terms.  *)
(* The inputs are small dyadic rationals, on which the float64 operations  *)
(* of the source (+, -, *, /80, /40, /2, math.Floor) are exact.  Go ints   *)
(* are modelled as integers (no value comes near 2^63).                    *)
(***************************************************************************)
EXTENDS Integers, Sequences, FiniteSets, TLC

VARIABLES v, call, pushLog, panicked

vars == <<v, call, pushLog, panicked>>

----------------------------------------------------------------------------
(* Bounds *)

MaxDepth == 2

----------------------------------------------------------------------------
(* float64 arithmetic, as exact rationals *)

Abs(i) == IF i < 0 THEN -i ELSE i

RECURSIVE GCD(_, _)
GCD(a, b) == IF b = 0 THEN a ELSE GCD(b, a % b)

RNorm(n, d) == LET g == GCD(Abs(n), d) IN [n |-> n \div g, d |-> d \div g]

Float(i) == [n |-> i, d |-> 1]

Frac(n, d) == RNorm(n, d)

RAdd(a, b) == RNorm(a.n * b.d + b.n * a.d, a.d * b.d)

RSub(a, b) == RNorm(a.n * b.d - b.n * a.d, a.d * b.d)

RMulInt(a, k) == RNorm(a.n * k, a.d)

RDivInt(a, k) == RNorm(a.n, a.d * k)

\* math.Floor: the greatest whole number not above a
Floor(a) == Float(a.n \div a.d)

\* int(f): Go's conversion of a float64 to int drops the fraction
ToInt(f) == IF f.n >= 0 THEN f.n \div f.d ELSE -((-f.n) \div f.d)

\* Go's integer division truncates toward zero
GoDiv(a, b) == IF a >= 0 THEN a \div b ELSE -((-a) \div b)

----------------------------------------------------------------------------
(* Constants of the source *)

center == 0
left == 1
right == 2

TileHalfWidth == 80
TileHalfHeight == 40
TileSpan == 3

\* the nil *Camera
NilCamera == 0

----------------------------------------------------------------------------
(* Collaborators: d2common.Rectangle and Camera *)

Rectangle(l, t, w, h) == [Left |-> l, Top |-> t, Width |-> w, Height |-> h]

Right(r) == r.Left + r.Width

Bottom(r) == r.Top + r.Height

\* The cameras a viewport can be bound to, as pointers 1..2
Cameras == {1, 2}

\* Camera.GetPosition
GetPosition(c) == IF c = 1 THEN <<Float(100), Float(50)>>
                           ELSE <<Frac(-15, 2), Float(20)>>

----------------------------------------------------------------------------
(* The Viewport's methods, as functions of the receiver *)

worldTrans(x, y) == [x |-> x, y |-> y]

NewViewport(x, y, width, height) ==
    [ screenRect        |-> Rectangle(x, y, width, height),
      defaultScreenRect |-> Rectangle(x, y, width, height),
      transStack        |-> << >>,
      transCurrent      |-> worldTrans(Float(0), Float(0)),
      camera            |-> NilCamera,
      align             |-> center ]

SetCamera(w, camera) == [w EXCEPT !.camera = camera]

\* OrthoToWorld with the sign of the difference in worldY turned round
OrthoToWorldSignSlip(x, y) ==
    LET worldX == RDivInt(RAdd(RDivInt(x, TileHalfWidth), RDivInt(y, TileHalfHeight)), 2)
        worldY == RDivInt(RSub(RDivInt(x, TileHalfWidth), RDivInt(y, TileHalfHeight)), 2)
    IN  <<worldX, worldY>>

OrthoToWorld(x, y) ==
    LET worldX == RDivInt(RAdd(RDivInt(x, TileHalfWidth), RDivInt(y, TileHalfHeight)), 2)
        worldY == RDivInt(RSub(RDivInt(y, TileHalfHeight), RDivInt(x, TileHalfWidth)), 2)
    IN  <<worldX, worldY>>

WorldToOrtho(x, y) ==
    LET orthoX == RMulInt(RSub(x, y), TileHalfWidth)
        orthoY == RMulInt(RAdd(x, y), TileHalfHeight)
    IN  <<orthoX, orthoY>>

\* getCameraOffset recentring on the default rectangle instead of the current one
getCameraOffsetDefaultRect(w) ==
    LET pos  == IF w.camera # NilCamera THEN GetPosition(w.camera)
                                        ELSE <<Float(0), Float(0)>>
        camX == RSub(pos[1], Float(GoDiv(w.defaultScreenRect.Width, 2)))
        camY == RSub(pos[2], Float(GoDiv(w.defaultScreenRect.Height, 2)))
    IN  <<camX, camY>>

getCameraOffset(w) ==
    LET pos  == IF w.camera # NilCamera THEN GetPosition(w.camera)
                                        ELSE <<Float(0), Float(0)>>
        camX == RSub(pos[1], Float(GoDiv(w.screenRect.Width, 2)))
        camY == RSub(pos[2], Float(GoDiv(w.screenRect.Height, 2)))
    IN  <<camX, camY>>

\* ScreenToOrtho adding the screen rectangle's origin instead of subtracting it
ScreenToOrthoAddsOrigin(w, x, y) ==
    LET cam     == getCameraOffset(w)
        screenX == RAdd(RAdd(Float(x), cam[1]), Float(w.screenRect.Left))
        screenY == RAdd(RAdd(Float(y), cam[2]), Float(w.screenRect.Top))
    IN  <<screenX, screenY>>

ScreenToOrtho(w, x, y) ==
    LET cam     == getCameraOffset(w)
        screenX == RSub(RAdd(Float(x), cam[1]), Float(w.screenRect.Left))
        screenY == RSub(RAdd(Float(y), cam[2]), Float(w.screenRect.Top))
    IN  <<screenX, screenY>>

OrthoToScreenF(w, x, y) ==
    LET cam    == getCameraOffset(w)
        orthoX == RAdd(RSub(x, cam[1]), Float(w.screenRect.Left))
        orthoY == RAdd(RSub(y, cam[2]), Float(w.screenRect.Top))
    IN  <<orthoX, orthoY>>

OrthoToScreen(w, x, y) ==
    LET cam    == getCameraOffset(w)
        orthoX == ToInt(Floor(RAdd(RSub(x, cam[1]), Float(w.screenRect.Left))))
        orthoY == ToInt(Floor(RAdd(RSub(y, cam[2]), Float(w.screenRect.Top))))
    IN  <<orthoX, orthoY>>

WorldToScreen(w, x, y) ==
    LET o == WorldToOrtho(x, y) IN OrthoToScreen(w, o[1], o[2])

WorldToScreenF(w, x, y) ==
    LET o == WorldToOrtho(x, y) IN OrthoToScreenF(w, o[1], o[2])

ScreenToWorld(w, x, y) ==
    LET o == ScreenToOrtho(w, x, y) IN OrthoToWorld(o[1], o[2])

\* IsOrthoRectVisible with > for >= at the right and bottom edges
IsOrthoRectVisibleClosed(w, x1, y1, x2, y2) ==
    LET s1 == OrthoToScreen(w, x1, y1)
        s2 == OrthoToScreen(w, x2, y2)
    IN  ~(   s1[1] > w.defaultScreenRect.Width
          \/ s2[1] < 0
          \/ s1[2] > w.defaultScreenRect.Height
          \/ s2[2] < 0)

\* IsOrthoRectVisible testing against the current rectangle instead of the default one
IsOrthoRectVisibleCurrentRect(w, x1, y1, x2, y2) ==
    LET s1 == OrthoToScreen(w, x1, y1)
        s2 == OrthoToScreen(w, x2, y2)
    IN  ~(   s1[1] >= w.screenRect.Width
          \/ s2[1] < 0
          \/ s1[2] >= w.screenRect.Height
          \/ s2[2] < 0)

IsOrthoRectVisible(w, x1, y1, x2, y2) ==
    LET s1 == OrthoToScreen(w, x1, y1)
        s2 == OrthoToScreen(w, x2, y2)
    IN  ~(   s1[1] >= w.defaultScreenRect.Width
          \/ s2[1] < 0
          \/ s1[2] >= w.defaultScreenRect.Height
          \/ s2[2] < 0)

IsTileVisible(w, x, y) ==
    LET o1 == WorldToOrtho(RSub(x, Float(TileSpan)), y)
        o2 == WorldToOrtho(RAdd(x, Float(TileSpan)), y)
    IN  IsOrthoRectVisible(w, o1[1], o1[2], o2[1], o2[2])

IsTileRectVisible(w, rect) ==
    LET l == Float((rect.Left - Bottom(rect)) * TileHalfWidth)
        t == Float((rect.Left + rect.Top) * TileHalfHeight)
        r == Float((Right(rect) - rect.Top) * TileHalfWidth)
        b == Float((Right(rect) + Bottom(rect)) * TileHalfHeight)
    IN  IsOrthoRectVisible(w, l, t, r, b)

GetTranslationOrtho(w) == <<w.transCurrent.x, w.transCurrent.y>>

GetTranslationScreen(w) == OrthoToScreen(w, w.transCurrent.x, w.transCurrent.y)

PushTranslationOrtho(w, x, y) ==
    [w EXCEPT !.transStack   = Append(w.transStack, w.transCurrent),
              !.transCurrent = worldTrans(RAdd(w.transCurrent.x, x),
                                          RAdd(w.transCurrent.y, y))]

PushTranslationWorld(w, x, y) ==
    LET o == WorldToOrtho(x, y) IN PushTranslationOrtho(w, o[1], o[2])

PushTranslationScreen(w, x, y) ==
    LET o == ScreenToOrtho(w, x, y) IN PushTranslationOrtho(w, o[1], o[2])

\* the empty-stack check off by one
popPanicsOffByOne(w) == Len(w.transStack) <= 1

\* the check that makes PopTranslation panic("empty stack")
popPanics(w) == Len(w.transStack) = 0

\* PopTranslation restoring the bottom of the stack instead of the top
PopTranslationBottom(w) ==
    LET count == Len(w.transStack)
    IN  [w EXCEPT !.transCurrent = w.transStack[1],
                  !.transStack   = SubSeq(w.transStack, 1, count - 1)]

PopTranslation(w) ==
    LET count == Len(w.transStack)
    IN  [w EXCEPT !.transCurrent = w.transStack[count],
                  !.transStack   = SubSeq(w.transStack, 1, count - 1)]

\* toLeft without the early return, halving and shifting the current rectangle
toLeftInPlace(w) ==
    [w EXCEPT !.screenRect.Width = GoDiv(w.screenRect.Width, 2),
              !.screenRect.Left  = w.screenRect.Left + GoDiv(w.screenRect.Width, 2),
              !.align            = left]

toLeft(w) ==
    IF w.align = left THEN w
    ELSE [w EXCEPT !.screenRect.Width = GoDiv(w.defaultScreenRect.Width, 2),
                   !.screenRect.Left  = w.defaultScreenRect.Left
                                        + GoDiv(w.defaultScreenRect.Width, 2),
                   !.align            = left]

\* toRight halving the default rectangle as well
toRightHalvesDefault(w) ==
    IF w.align = right THEN w
    ELSE [w EXCEPT !.screenRect.Width        = GoDiv(w.defaultScreenRect.Width, 2),
                   !.defaultScreenRect.Width = GoDiv(w.defaultScreenRect.Width, 2),
                   !.align                   = right]

toRight(w) ==
    IF w.align = right THEN w
    ELSE [w EXCEPT !.screenRect.Width = GoDiv(w.defaultScreenRect.Width, 2),
                   !.align            = right]

resetAlign(w) ==
    IF w.align = center THEN w
    ELSE [w EXCEPT !.screenRect.Width = w.defaultScreenRect.Width,
                   !.screenRect.Left  = w.defaultScreenRect.Left,
                   !.align            = center]

----------------------------------------------------------------------------
(* Inputs *)

\* the arguments NewViewport is called with
InitRects == { <<0, 0, 800, 600>>, <<10, 5, 801, 601>> }

WorldPts == { <<Float(1), Float(1)>>, <<Float(0), Float(0)>>,
              <<Frac(1, 2), Float(-2)>>, <<Float(5), Float(-3)>> }

FixedOrthoPts == { <<Float(0), Float(80)>>, <<Frac(1, 2), Frac(-3, 2)>>,
                   <<Float(250), Float(0)>> }

\* screen points on both sides of each edge of the default screen rectangle
ScreenPts(w) ==
    LET W == w.defaultScreenRect.Width
        H == w.defaultScreenRect.Height
    IN  { <<0, 0>>, <<-1, 0>>, <<W, 0>>, <<W - 1, 0>>, <<0, H>>, <<0, H - 1>> }

\* the position of the bound camera, (0, 0) when there is none
CameraPos(w) == IF w.camera # NilCamera THEN GetPosition(w.camera)
                                        ELSE <<Float(0), Float(0)>>

OrthoPts(w) ==
    FixedOrthoPts \cup {CameraPos(w)}
                  \cup {ScreenToOrtho(w, s[1], s[2]) : s \in ScreenPts(w)}

\* ortho rectangles: every point as a degenerate rectangle, and three proper ones
OrthoRects(w) ==
    LET a == ScreenToOrtho(w, -5, -5)
        b == ScreenToOrtho(w, 5, 5)
        c == ScreenToOrtho(w, -1, 5)
    IN  { <<p[1], p[2], p[1], p[2]>> : p \in OrthoPts(w) }
        \cup { <<a[1], a[2], b[1], b[2]>>, <<a[1], a[2], c[1], c[2]>>,
               <<Float(-80), Float(0), Float(80), Float(80)>> }

TileRects == { Rectangle(0, 0, 2, 2), Rectangle(-20, 3, 4, 1) }

PushOrthoArgs == { <<Frac(1, 2), Float(-3)>> }
PushWorldArgs == { <<Float(1), Float(1)>> }
PushScreenArgs == { <<3, 4>> }

----------------------------------------------------------------------------
(* The state machine: v is the Viewport, call the last call made on it with
   its arguments and result, pushLog the value of GetTranslationOrtho and the
   stack depth seen before each push that has not been popped yet, panicked
   whether the program has panicked. *)

Call(op, args, ret) == [op |-> op, args |-> args, ret |-> ret]

Init ==
    \E r \in InitRects :
        /\ v = NewViewport(r[1], r[2], r[3], r[4])
        /\ call = Call("NewViewport", r, << >>)
        /\ pushLog = << >>
        /\ panicked = FALSE

\* a call that reads the viewport and returns ret
Query(op, args, ret) ==
    /\ ~panicked
    /\ call' = Call(op, args, ret)
    /\ UNCHANGED <<v, pushLog, panicked>>

\* a call that changes the viewport to w and leaves the stack depth alone
Update(op, args, w) ==
    /\ ~panicked
    /\ v' = w
    /\ call' = Call(op, args, << >>)
    /\ UNCHANGED <<pushLog, panicked>>

\* a call that pushes a translation
Push(op, args, w) ==
    /\ ~panicked
    /\ Len(v.transStack) < MaxDepth
    /\ v' = w
    /\ call' = Call(op, args, << >>)
    /\ pushLog' = Append(pushLog, [trans |-> GetTranslationOrtho(v),
                                   depth |-> Len(v.transStack)])
    /\ UNCHANGED panicked

DoSetCamera == \E c \in Cameras \cup {NilCamera} : Update("SetCamera", <<c>>, SetCamera(v, c))

DoWorldToOrtho == \E p \in WorldPts : Query("WorldToOrtho", p, WorldToOrtho(p[1], p[2]))

DoOrthoToWorld ==
    \E p \in FixedOrthoPts \cup {WorldToOrtho(q[1], q[2]) : q \in WorldPts} :
        Query("OrthoToWorld", p, OrthoToWorld(p[1], p[2]))

DoScreenToOrtho == \E s \in ScreenPts(v) : Query("ScreenToOrtho", s, ScreenToOrtho(v, s[1], s[2]))

DoOrthoToScreen == \E p \in OrthoPts(v) : Query("OrthoToScreen", p, OrthoToScreen(v, p[1], p[2]))

DoOrthoToScreenF == \E p \in OrthoPts(v) : Query("OrthoToScreenF", p, OrthoToScreenF(v, p[1], p[2]))

DoWorldToScreen == \E p \in WorldPts : Query("WorldToScreen", p, WorldToScreen(v, p[1], p[2]))

DoWorldToScreenF == \E p \in WorldPts : Query("WorldToScreenF", p, WorldToScreenF(v, p[1], p[2]))

DoScreenToWorld == \E s \in ScreenPts(v) : Query("ScreenToWorld", s, ScreenToWorld(v, s[1], s[2]))

DoIsOrthoRectVisible ==
    \E r \in OrthoRects(v) :
        Query("IsOrthoRectVisible", r, <<IsOrthoRectVisible(v, r[1], r[2], r[3], r[4])>>)

DoIsTileVisible == \E p \in WorldPts : Query("IsTileVisible", p, <<IsTileVisible(v, p[1], p[2])>>)

DoIsTileRectVisible == \E r \in TileRects : Query("IsTileRectVisible", <<r>>, <<IsTileRectVisible(v, r)>>)

DoGetTranslationOrtho == Query("GetTranslationOrtho", << >>, GetTranslationOrtho(v))

DoGetTranslationScreen == Query("GetTranslationScreen", << >>, GetTranslationScreen(v))

DoPushTranslationOrtho ==
    \E p \in PushOrthoArgs : Push("PushTranslationOrtho", p, PushTranslationOrtho(v, p[1], p[2]))

DoPushTranslationWorld ==
    \E p \in PushWorldArgs : Push("PushTranslationWorld", p, PushTranslationWorld(v, p[1], p[2]))

DoPushTranslationScreen ==
    \E s \in PushScreenArgs : Push("PushTranslationScreen", s, PushTranslationScreen(v, s[1], s[2]))

\* PopTranslation panics on the empty stack, before it changes anything
DoPopTranslation ==
    /\ ~panicked
    /\ call' = Call("PopTranslation", << >>, << >>)
    /\ IF popPanics(v)
       THEN /\ panicked' = TRUE
            /\ UNCHANGED <<v, pushLog>>
       ELSE /\ v' = PopTranslation(v)
            /\ pushLog' = SubSeq(pushLog, 1, Len(pushLog) - 1)
            /\ UNCHANGED panicked

DoToLeft == Update("toLeft", << >>, toLeft(v))

DoToRight == Update("toRight", << >>, toRight(v))

DoResetAlign == Update("resetAlign", << >>, resetAlign(v))

\* Every call that changes the viewport, and the reads of the translation
Next ==
    \/ DoSetCamera
    \/ DoGetTranslationOrtho
    \/ DoGetTranslationScreen
    \/ DoPushTranslationOrtho
    \/ DoPushTranslationWorld
    \/ DoPushTranslationScreen
    \/ DoPopTranslation
    \/ DoToLeft
    \/ DoToRight
    \/ DoResetAlign

Spec == Init /\ [][Next]_vars

\* The conversions and visibility tests, in every alignment and camera binding
NextConv ==
    \/ DoSetCamera
    \/ DoToLeft
    \/ DoToRight
    \/ DoResetAlign
    \/ DoWorldToOrtho
    \/ DoOrthoToWorld
    \/ DoScreenToOrtho
    \/ DoOrthoToScreen
    \/ DoOrthoToScreenF
    \/ DoWorldToScreen
    \/ DoWorldToScreenF
    \/ DoScreenToWorld
    \/ DoIsOrthoRectVisible
    \/ DoIsTileVisible
    \/ DoIsTileRectVisible

SpecConv == Init /\ [][NextConv]_vars

----------------------------------------------------------------------------
(* Properties *)

AlignOps == {"toLeft", "toRight", "resetAlign"}

\* a < b, and a being a whole number, for float64 values
RLess(a, b) == a.n * b.d < b.n * a.d

IsWhole(a) == a.d = 1

\* the viewports that differ from w only by alignment transitions applied to it
AlignVariants(w) ==
    LET one == {toLeft(w), toRight(w), resetAlign(w)}
    IN  {w} \cup one \cup {toLeft(u) : u \in one} \cup {toRight(u) : u \in one}
            \cup {resetAlign(u) : u \in one}

\* C1: in every reachable state screenRect is determined by defaultScreenRect
\* and align: center gives the default rectangle, left gives width w/2 and
\* left x + w/2, right gives width w/2 and left x.
C1_ScreenRectDeterminedByAlign ==
    LET d == v.defaultScreenRect
        s == v.screenRect
    IN  /\ v.align = center => s = d
        /\ v.align = left  => s.Width = GoDiv(d.Width, 2) /\ s.Left = d.Left + GoDiv(d.Width, 2)
        /\ v.align = right => s.Width = GoDiv(d.Width, 2) /\ s.Left = d.Left

\* C2: every PopTranslation that returns restores the translation that
\* GetTranslationOrtho returned right before the matching push and the stack
\* depth of that moment, whatever SetCamera and alignment calls came between;
\* and the stack depth is the number of pushes not popped yet.
C2_StackBalance ==
    [][ /\ Len(v'.transStack) = Len(pushLog')
        /\ (call'.op = "PopTranslation" /\ ~panicked') =>
               /\ <<v'.transCurrent.x, v'.transCurrent.y>> = pushLog[Len(pushLog)].trans
               /\ Len(v'.transStack) = pushLog[Len(pushLog)].depth ]_vars

C2_Witness ==
    /\ call.op = "PopTranslation"
    /\ ~panicked
    /\ Len(v.transStack) = 1
    /\ v.transCurrent # v.transStack[1]
    /\ v.camera # NilCamera
    /\ v.align = right

\* C3: the program panics exactly in a PopTranslation made when every push has
\* been popped, and that call changes nothing; no other call, and no
\* PopTranslation on a non-empty stack, panics.
C3_OnlyEmptyPopPanics ==
    [][ /\ panicked' <=> (call'.op = "PopTranslation" /\ Len(pushLog) = 0)
        /\ panicked' => v' = v ]_vars

C3_Witness ==
    /\ panicked
    /\ call.op = "PopTranslation"
    /\ v.transCurrent = worldTrans(Float(0), Float(0))
    /\ v.align = left
    /\ v.camera # NilCamera

\* C4 as stated: IsOrthoRectVisible returns the same boolean for the same
\* arguments in every viewport that differs only by alignment transitions.
C4_AlignmentIndependent ==
    call.op = "IsOrthoRectVisible" =>
        \A u \in AlignVariants(v) :
            IsOrthoRectVisible(u, call.args[1], call.args[2], call.args[3], call.args[4])
                = call.ret[1]

\* C4 as amended: in viewports that differ only by alignment transitions,
\* IsOrthoRectVisible returns the same boolean for rectangles with the same
\* screen image, that is for arguments shifted horizontally by the difference
\* of the two viewports' OrthoToScreen offsets.
C4_SameImageSameDecision ==
    call.op = "IsOrthoRectVisible" =>
        \A u \in AlignVariants(v) :
            LET d == OrthoToScreen(v, Float(0), Float(0))[1]
                       - OrthoToScreen(u, Float(0), Float(0))[1]
            IN  IsOrthoRectVisible(u, RAdd(call.args[1], Float(d)), call.args[2],
                                      RAdd(call.args[3], Float(d)), call.args[4])
                    = call.ret[1]

C4_Witness ==
    /\ call.op = "IsOrthoRectVisible"
    /\ v.align = left
    /\ call.ret[1] = FALSE
    /\ IsOrthoRectVisible(resetAlign(v), call.args[1], call.args[2], call.args[3], call.args[4])

\* C5: IsOrthoRectVisible returns false exactly when the screen image of the
\* first corner is at or beyond the default width or height, or the image of
\* the second corner is negative; a point whose image is (width, 0) is not
\* visible and one whose image is (width - 1, 0) is.
C5_HalfOpenInterval ==
    call.op = "IsOrthoRectVisible" =>
        LET s1 == OrthoToScreen(v, call.args[1], call.args[2])
            s2 == OrthoToScreen(v, call.args[3], call.args[4])
            W  == v.defaultScreenRect.Width
            H  == v.defaultScreenRect.Height
            point == call.args[1] = call.args[3] /\ call.args[2] = call.args[4]
        IN  /\ call.ret[1] = FALSE <=> (s1[1] >= W \/ s2[1] < 0 \/ s1[2] >= H \/ s2[2] < 0)
            /\ (point /\ s1 = <<W, 0>>) => call.ret[1] = FALSE
            /\ (point /\ s1 = <<W - 1, 0>>) => call.ret[1] = TRUE

C5_Witness ==
    /\ call.op = "IsOrthoRectVisible"
    /\ call.args[1] = call.args[3] /\ call.args[2] = call.args[4]
    /\ OrthoToScreen(v, call.args[1], call.args[2]) = <<v.defaultScreenRect.Width, 0>>
    /\ call.ret[1] = FALSE
    /\ v.align = left

\* C6: an alignment transition called right after the same transition leaves
\* screenRect and align as the first call left them, and resetAlign on a
\* freshly constructed viewport changes nothing.
C6_AlignIdempotent ==
    [][ /\ (call'.op \in AlignOps /\ call.op = call'.op) =>
               (v'.screenRect = v.screenRect /\ v'.align = v.align)
        /\ (call.op = "NewViewport" /\ call'.op = "resetAlign") => v' = v ]_vars

C6_Witness ==
    /\ call.op = "toLeft"
    /\ v.align = left
    /\ v.screenRect.Width = GoDiv(v.defaultScreenRect.Width, 2)
    /\ v.screenRect.Left = v.defaultScreenRect.Left + GoDiv(v.defaultScreenRect.Width, 2)
    /\ Len(v.transStack) > 0

\* C7: an alignment transition changes at most align, screenRect.Width and
\* screenRect.Left, and no call ever changes defaultScreenRect.
C7_AlignFrame ==
    [][ /\ v'.defaultScreenRect = v.defaultScreenRect
        /\ call'.op \in AlignOps =>
               v' = [v EXCEPT !.align            = v'.align,
                              !.screenRect.Width = v'.screenRect.Width,
                              !.screenRect.Left  = v'.screenRect.Left] ]_vars

C7_Witness ==
    /\ call.op = "toRight"
    /\ v.screenRect # v.defaultScreenRect
    /\ Len(v.transStack) = 2
    /\ v.camera # NilCamera

\* C8: ScreenToOrtho of OrthoToScreen(x, y) is (x, y) when the screen image of
\* (x, y) is whole, and otherwise lies less than one below it in each
\* coordinate, in every alignment and camera binding.
C8_ScreenOrthoRoundTrip ==
    call.op = "OrthoToScreen" =>
        LET back == ScreenToOrtho(v, call.ret[1], call.ret[2])
            img  == OrthoToScreenF(v, call.args[1], call.args[2])
        IN  /\ (IsWhole(img[1]) /\ IsWhole(img[2])) <=> back = call.args
            /\ \A i \in 1..2 :
                   /\ ~RLess(call.args[i], back[i])
                   /\ RLess(RSub(call.args[i], back[i]), Float(1))

C8_Witness ==
    /\ call.op = "OrthoToScreen"
    /\ v.camera # NilCamera
    /\ v.align = left
    /\ ~IsWhole(call.args[1])
    /\ ScreenToOrtho(v, call.ret[1], call.ret[2]) = call.args

\* C9: the camera offset is the camera's position ((0, 0) without a camera)
\* less half the current screenRect's width and height in integer division, so
\* OrthoToScreen of the camera's position is the center of the current
\* screenRect; without a camera and with screenRect {0,0,800,600}
\* OrthoToScreen(0, 80) = (400, 380); the camera at (100, 50) shifts every
\* OrthoToScreen result by (-100, -50).
C9_CameraRecentring ==
    LET pos == CameraPos(v)
        s   == v.screenRect
    IN  /\ getCameraOffset(v) = << RSub(pos[1], Float(GoDiv(s.Width, 2))),
                                   RSub(pos[2], Float(GoDiv(s.Height, 2))) >>
        /\ call.op = "OrthoToScreen" =>
               /\ call.args = pos =>
                      call.ret = <<s.Left + GoDiv(s.Width, 2), s.Top + GoDiv(s.Height, 2)>>
               /\ (v.camera = NilCamera /\ s = Rectangle(0, 0, 800, 600)
                     /\ call.args = <<Float(0), Float(80)>>) => call.ret = <<400, 380>>
               /\ (v.camera # NilCamera /\ GetPosition(v.camera) = <<Float(100), Float(50)>>) =>
                      LET free == OrthoToScreen(SetCamera(v, NilCamera), call.args[1], call.args[2])
                      IN  call.ret = <<free[1] - 100, free[2] - 50>>

C9_Witness ==
    /\ call.op = "OrthoToScreen"
    /\ v.camera # NilCamera
    /\ GetPosition(v.camera) = <<Float(100), Float(50)>>
    /\ call.args = CameraPos(v)
    /\ v.align = left
    /\ v.screenRect.Width # v.defaultScreenRect.Width
    /\ call.ret = <<v.screenRect.Left + GoDiv(v.screenRect.Width, 2),
                    v.screenRect.Top + GoDiv(v.screenRect.Height, 2)>>

\* C10: WorldToOrtho(x, y) = ((x - y) * 80, (x + y) * 40), OrthoToWorld maps
\* the result back to (x, y), in every viewport state, and
\* WorldToOrtho(1, 1) = (0, 80).
C10_WorldOrthoRoundTrip ==
    call.op = "WorldToOrtho" =>
        LET x == call.args[1]
            y == call.args[2]
        IN  /\ call.ret = <<RMulInt(RSub(x, y), 80), RMulInt(RAdd(x, y), 40)>>
            /\ OrthoToWorld(call.ret[1], call.ret[2]) = call.args
            /\ call.args = <<Float(1), Float(1)>> => call.ret = <<Float(0), Float(80)>>

C10_Witness ==
    /\ call.op = "WorldToOrtho"
    /\ call.args = <<Frac(1, 2), Float(-2)>>
    /\ call.ret = <<Float(200), Float(-60)>>
    /\ v.align = right
    /\ v.camera # NilCamera

====
